---- MODULE Spec2Model ----
(***************************************************************************)
(* A model of the licence_management application: the license key codec    *)
(* (AdvancedLicenseKeyGenerator), the License record and its validation    *)
(* rules (License.is_valid), and the HTTP handlers that read and write     *)
(* License rows concurrently (views.py).                                   *)
(*                                                                         *)
(* Representation.                                                         *)
(*   - a Python str that is hashed or serialised is a sequence of ASCII    *)
(*     codes; a license key is a sequence of one-character strings;        *)
(*   - bytes are sequences of integers 0..255;                             *)
(*   - Optional[x] is <<>> (None / empty, falsy) or <<x>>;                 *)
(*   - a dict is a sequence of <<key, value>> pairs in insertion order,    *)
(*     which is the order Python iterates and json.dumps emits;            *)
(*   - 32-bit unsigned words are kept as <<hi16, lo16>> or as 4 bytes.     *)
(***************************************************************************)
EXTENDS Integers, Sequences, FiniteSets, TLC

\* ------------------------------------------------------------------ bytes

\* a ^ b on bytes, bit by bit
XorBits8(a, b) ==
    ((a + b) % 2)
  + 2 * (((a \div 2) + (b \div 2)) % 2)
  + 4 * (((a \div 4) + (b \div 4)) % 2)
  + 8 * (((a \div 8) + (b \div 8)) % 2)
  + 16 * (((a \div 16) + (b \div 16)) % 2)
  + 32 * (((a \div 32) + (b \div 32)) % 2)
  + 64 * (((a \div 64) + (b \div 64)) % 2)
  + 128 * (((a \div 128) + (b \div 128)) % 2)

\* the table of a ^ b on bytes: entry 256 * a + b + 1
XorTable == SubSeq([i \in 1..65536 |-> XorBits8((i - 1) \div 256, (i - 1) % 256)], 1, 65536)

\* a ^ b on bytes
Xor8(a, b) == XorTable[256 * a + b + 1]

\* a ^ b on 16-bit operands
Xor16(a, b) ==
  256 * XorTable[256 * (a \div 256) + (b \div 256) + 1] + XorTable[256 * (a % 256) + (b % 256) + 1]

\* s[a:b] of Python for 0 <= a, with b already resolved to an offset from the start
Slice(s, a, b) ==
  LET lo == IF a < 0 THEN 0 ELSE a
      hi == IF b > Len(s) THEN Len(s) ELSE b
  IN  IF hi <= lo THEN <<>> ELSE SubSeq(s, lo + 1, hi)

\* s[a:-k] and s[-k:] of Python: a negative index counts from the end, clipped at 0
FromEnd(s, k) == IF Len(s) - k < 0 THEN 0 ELSE Len(s) - k

\* the letters str.lower() changes, and what it makes of them
UpperLetters ==
  <<"A", "B", "C", "D", "E", "F", "G", "H", "I", "J", "K", "L", "M",
    "N", "O", "P", "Q", "R", "S", "T", "U", "V", "W", "X", "Y", "Z">>
LowerLetters ==
  <<"a", "b", "c", "d", "e", "f", "g", "h", "i", "j", "k", "l", "m",
    "n", "o", "p", "q", "r", "s", "t", "u", "v", "w", "x", "y", "z">>

\* str.lower() on the letters A..Z
Lower(str) ==
  [i \in 1..Len(str) |->
     IF \E k \in 1..26 : UpperLetters[k] = str[i]
       THEN LowerLetters[CHOOSE k \in 1..26 : UpperLetters[k] = str[i]]
       ELSE str[i]]

RECURSIVE Decimal(_)
\* str(n) of a non-negative integer, as ASCII codes
Decimal(n) == IF n < 10 THEN <<48 + n>> ELSE Decimal(n \div 10) \o <<48 + (n % 10)>>

\* struct.pack('>I', n) for 0 <= n < 2^31
PackI(n) ==
  <<(n \div 16777216) % 256, (n \div 65536) % 256, (n \div 256) % 256, n % 256>>

\* struct.pack('>BI', version, timestamp): no alignment padding with '>'
PackBI(version, timestamp) == <<version % 256>> \o PackI(timestamp)

\* struct.unpack('>BI', payload[:5]) of a 5-byte sequence: the version byte
UnpackVersion(b) == b[1]

\* ---------------------------------------------------------------- zlib.crc32

CrcPolyHi == 60856  \* 0xEDB8
CrcPolyLo == 33568  \* 0x8320

RECURSIVE CrcEntry(_, _)
\* k rounds of the reflected CRC-32 shift register on the word w = <<hi, lo>>
CrcEntry(w, k) ==
  IF k = 0 THEN w
  ELSE LET hi == w[1] \div 2
           lo == (w[2] \div 2) + (w[1] % 2) * 32768
       IN  IF w[2] % 2 = 1
             THEN CrcEntry(<<Xor16(hi, CrcPolyHi), Xor16(lo, CrcPolyLo)>>, k - 1)
             ELSE CrcEntry(<<hi, lo>>, k - 1)

\* the 256-entry table of the byte-wise algorithm; entry for byte v is CrcTable[v + 1]
CrcTable == SubSeq([i \in 1..256 |-> CrcEntry(<<0, i - 1>>, 8)], 1, 256)

RECURSIVE CrcUpdate(_, _, _, _)
\* one step per byte: crc = table[(crc ^ byte) & 0xFF] ^ (crc >> 8), on hi and lo halves
CrcUpdate(hi, lo, data, i) ==
  IF i > Len(data) \/ hi + lo < 0 THEN <<hi, lo>>
  ELSE CrcUpdate(
         Xor16(CrcTable[XorTable[256 * (lo % 256) + data[i] + 1] + 1][1], hi \div 256),
         Xor16(CrcTable[XorTable[256 * (lo % 256) + data[i] + 1] + 1][2],
               (lo \div 256) + (hi % 256) * 256),
         data, i + 1)

\* the final complement of the register w, as 4 big-endian bytes
CrcBytes(w) ==
  <<(65535 - w[1]) \div 256, (65535 - w[1]) % 256,
    (65535 - w[2]) \div 256, (65535 - w[2]) % 256>>

\* zlib.crc32(data) & 0xffffffff, as the 4 bytes struct.pack('>I', .) gives
Crc32(data) == CrcBytes(CrcUpdate(65535, 65535, data, 1))

\* ------------------------------------------------------------------ zlib

RECURSIVE AdlerUpdate(_, _, _, _)
AdlerUpdate(a, b, data, i) ==
  IF i > Len(data) \/ a + b < 0 THEN <<b \div 256, b % 256, a \div 256, a % 256>>
  ELSE LET a2 == (a + data[i]) % 65521
       IN  AdlerUpdate(a2, (b + a2) % 65521, data, i + 1)

\* the Adler-32 trailer of a zlib stream, big-endian
Adler32(data) == AdlerUpdate(1, 0, data, 1)

\* zlib.compress(data, level=9): the zlib header 78 DA, the body, the Adler-32
\* trailer. The deflate coding of the body is not modelled: the body is stored.
ZlibCompress(data) == <<120, 218>> \o data \o Adler32(data)

\* zlib.decompress(stream): [ok, data]; fails on a bad header, a short stream or
\* a trailer that does not match
ZlibDecompress(stream) ==
  IF Len(stream) < 6 \/ stream[1] # 120 \/ stream[2] # 218
    THEN [ok |-> FALSE, data |-> <<>>]
    ELSE IF Adler32(Slice(stream, 2, Len(stream) - 4))
              = Slice(stream, Len(stream) - 4, Len(stream))
      THEN [ok |-> TRUE, data |-> Slice(stream, 2, Len(stream) - 4)]
      ELSE [ok |-> FALSE, data |-> <<>>]

\* ---------------------------------------------------------------- hashlib

RECURSIVE Mix(_, _, _)
Mix(data, i, h) ==
  IF i > Len(data) \/ h < 0 THEN h ELSE Mix(data, i + 1, (h * 33 + data[i] + i) % 65521)

\* n bytes spread from the mixed value h
Spread(h, n) == SubSeq([j \in 1..n |-> ((h * (2 * j + 1) + 7 * j) \div 3) % 256], 1, n)

\* n digest bytes of data under a domain tag. A stand-in for a cryptographic
\* hash: a deterministic function of every input byte. Collision resistance is
\* not modelled.
Digest(tag, data, n) == Spread(Mix(data, 1, 5381 + tag), n)

\* hashlib.sha256(data).digest()
Sha256(data) == Digest(256, data, 32)

\* hashlib.md5(data).digest()
Md5(data) == Digest(5, data, 16)

\* hmac.new(key, msg, hashlib.sha256).digest()
HmacSha256(key, msg) == Sha256(key \o Sha256(key \o msg))

HexDigits == <<48, 49, 50, 51, 52, 53, 54, 55, 56, 57, 97, 98, 99, 100, 101, 102>>

\* bytes.hex(): two lowercase hex digits per byte
HexDigest(bytes) ==
  SubSeq([i \in 1..(2 * Len(bytes)) |->
            LET b == bytes[(i + 1) \div 2]
            IN  IF i % 2 = 1 THEN HexDigits[(b \div 16) + 1] ELSE HexDigits[(b % 16) + 1]],
         1, 2 * Len(bytes))

\* ---------------------------------------------------------------- base64

B32Alphabet ==
  << "A", "B", "C", "D", "E", "F", "G", "H", "I", "J", "K", "L", "M", "N", "O", "P",
     "Q", "R", "S", "T", "U", "V", "W", "X", "Y", "Z", "2", "3", "4", "5", "6", "7" >>

B32Chars == {B32Alphabet[i] : i \in 1..32}

B32Val(c) == (CHOOSE i \in 1..32 : B32Alphabet[i] = c) - 1

\* bit i (1-based, most significant first) of a byte string
BitOf(bytes, i) ==
  IF i > 8 * Len(bytes) THEN 0
  ELSE (bytes[((i - 1) \div 8) + 1] \div (2 ^ (7 - ((i - 1) % 8)))) % 2

\* base64.b32encode(data).decode('ascii').rstrip('='): one character per 5 bits,
\* the last group filled with zero bits
B32EncodeStripped(bytes) ==
  LET nchars == (8 * Len(bytes) + 4) \div 5
  IN  SubSeq([j \in 1..nchars |->
         B32Alphabet[ 16 * BitOf(bytes, 5 * j - 4) + 8 * BitOf(bytes, 5 * j - 3)
                    + 4 * BitOf(bytes, 5 * j - 2) + 2 * BitOf(bytes, 5 * j - 1)
                    + BitOf(bytes, 5 * j) + 1 ]], 1, nchars)

RECURSIVE RStripPad(_)
\* s.rstrip('=')
RStripPad(s) ==
  IF Len(s) > 0 /\ s[Len(s)] = "=" THEN RStripPad(SubSeq(s, 1, Len(s) - 1)) ELSE s

\* the 5-bit values of a string of alphabet characters
B32Vals(chars) == SubSeq([i \in 1..Len(chars) |-> B32Val(chars[i])], 1, Len(chars))

\* bit i (1-based, most significant first) of a sequence of 5-bit values
ValBit(vals, i) == (vals[((i - 1) \div 5) + 1] \div (2 ^ (4 - ((i - 1) % 5)))) % 2

\* the first nbytes bytes that a sequence of 5-bit values spells
B32Bytes(vals, nbytes) ==
  SubSeq([j \in 1..nbytes |->
             128 * ValBit(vals, 8 * j - 7) + 64 * ValBit(vals, 8 * j - 6)
           + 32 * ValBit(vals, 8 * j - 5) + 16 * ValBit(vals, 8 * j - 4)
           + 8 * ValBit(vals, 8 * j - 3) + 4 * ValBit(vals, 8 * j - 2)
           + 2 * ValBit(vals, 8 * j - 1) + ValBit(vals, 8 * j)], 1, nbytes)

\* b32decode of s whose text without the trailing pad characters is body
B32DecodeBody(s, body) ==
  IF Len(s) % 8 # 0 THEN [ok |-> FALSE, data |-> <<>>]
  ELSE IF \E i \in 1..Len(body) : body[i] \notin B32Chars
    THEN [ok |-> FALSE, data |-> <<>>]
  ELSE IF (Len(s) - Len(body)) \notin {0, 1, 3, 4, 6} THEN [ok |-> FALSE, data |-> <<>>]
  ELSE [ok |-> TRUE, data |-> B32Bytes(B32Vals(body), (5 * Len(body)) \div 8)]

\* base64.b32decode(s) with casefold=False: [ok, data]. binascii.Error when the
\* length is not a multiple of 8, a character is outside the alphabet, or the
\* number of pad characters is not one of 0, 1, 3, 4, 6. The bits of the last
\* quantum beyond the last whole byte are dropped without being inspected.
B32Decode(s) == B32DecodeBody(s, RStripPad(s))

\* ------------------------------------------------------------------ json

Comma == 44
Quote == 34
LBrace == 123
RBrace == 125

\* an integer value: its decimal digits, then the separator
EncInt(n) == Decimal(n) \o <<Comma>>

\* a string value: quoted, then the separator (no string of the model holds a quote)
EncStr(str) == <<Quote>> \o str \o <<Quote, Comma>>

RECURSIVE EncPairs(_, _)
EncPairs(features, i) ==
  IF i > Len(features) THEN <<>>
  ELSE EncStr(features[i][1]) \o EncInt(features[i][2]) \o EncPairs(features, i + 1)

RECURSIVE StrLess(_, _)
\* a < b on str values
StrLess(a, b) ==
  IF b = <<>> THEN FALSE
  ELSE IF a = <<>> THEN TRUE
  ELSE IF a[1] # b[1] THEN a[1] < b[1]
  ELSE StrLess(Tail(a), Tail(b))

RECURSIVE SortedItems(_)
\* the items of a dict by ascending key
SortedItems(features) ==
  IF features = <<>> THEN <<>>
  ELSE LET least == CHOOSE i \in 1..Len(features) :
                      \A j \in 1..Len(features) : ~StrLess(features[j][1], features[i][1])
       IN  <<features[least]>>
           \o SortedItems(SubSeq(features, 1, least - 1)
                          \o SubSeq(features, least + 1, Len(features)))

\* a dict value written with sort_keys=True
EncObjSorted(features) == <<LBrace>> \o EncPairs(SortedItems(features), 1) \o <<RBrace, Comma>>

\* a dict value: its items in the dict's own (insertion) order; nothing sorts them
EncObj(features) == <<LBrace>> \o EncPairs(features, 1) \o <<RBrace, Comma>>

\* json.dumps(metadata, separators=(',', ':')).encode('utf-8'). The envelope is
\* written in the order the dict literal lists its keys: client_id, email_hash,
\* expires, max_users, features, issued. The constant key names of the envelope
\* are not spelled out in the byte form.
JsonDumps(metadata) ==
     EncInt(metadata.client_id) \o EncStr(metadata.email_hash)
  \o EncInt(metadata.expires) \o EncInt(metadata.max_users)
  \o EncObj(metadata.features) \o EncInt(metadata.issued)

ParseFail == [ok |-> FALSE, val |-> <<>>, pos |-> 0]

RECURSIVE DigitsEnd(_, _)
DigitsEnd(b, p) == IF p <= Len(b) /\ b[p] \in 48..57 THEN DigitsEnd(b, p + 1) ELSE p

RECURSIVE DecVal(_, _, _, _)
DecVal(b, p, q, acc) == IF p >= q THEN acc ELSE DecVal(b, p + 1, q, 10 * acc + (b[p] - 48))

\* an integer at p: [ok, val |-> <<n>>, pos |-> the position after the separator]
ParseInt(b, p) ==
  LET q == DigitsEnd(b, p)
  IN  IF q = p \/ q > Len(b) \/ b[q] # Comma THEN ParseFail
      ELSE [ok |-> TRUE, val |-> <<DecVal(b, p, q, 0)>>, pos |-> q + 1]

RECURSIVE QuoteAt(_, _)
QuoteAt(b, p) == IF p > Len(b) \/ b[p] = Quote THEN p ELSE QuoteAt(b, p + 1)

\* a string at p: [ok, val |-> <<str>>, pos]
ParseStr(b, p) ==
  IF p > Len(b) \/ b[p] # Quote THEN ParseFail
  ELSE LET q == QuoteAt(b, p + 1)
       IN  IF q + 1 > Len(b) \/ b[q + 1] # Comma THEN ParseFail
           ELSE [ok |-> TRUE, val |-> <<Slice(b, p, q - 1)>>, pos |-> q + 2]

RECURSIVE ParsePairs(_, _, _)
ParsePairs(b, p, acc) ==
  IF p > Len(b) THEN ParseFail
  ELSE IF b[p] = RBrace
    THEN IF p + 1 > Len(b) \/ b[p + 1] # Comma THEN ParseFail
         ELSE [ok |-> TRUE, val |-> <<acc>>, pos |-> p + 2]
  ELSE LET k == ParseStr(b, p)
       IN  IF ~k.ok THEN ParseFail
           ELSE LET v == ParseInt(b, k.pos)
                IN  IF ~v.ok THEN ParseFail
                    ELSE ParsePairs(b, v.pos, Append(acc, <<k.val[1], v.val[1]>>))

\* a dict at p: its items in the order they are read
ParseObj(b, p) ==
  IF p > Len(b) \/ b[p] # LBrace THEN ParseFail ELSE ParsePairs(b, p + 1, <<>>)

\* json.loads(bytes.decode('utf-8')): [ok, val |-> <<metadata>>]
JsonLoads(b) ==
  LET c == ParseInt(b, 1) IN
  IF ~c.ok THEN ParseFail ELSE
  LET h == ParseStr(b, c.pos) IN
  IF ~h.ok THEN ParseFail ELSE
  LET e == ParseInt(b, h.pos) IN
  IF ~e.ok THEN ParseFail ELSE
  LET m == ParseInt(b, e.pos) IN
  IF ~m.ok THEN ParseFail ELSE
  LET f == ParseObj(b, m.pos) IN
  IF ~f.ok THEN ParseFail ELSE
  LET s == ParseInt(b, f.pos) IN
  IF ~s.ok \/ s.pos # Len(b) + 1 THEN ParseFail
  ELSE [ok |-> TRUE, pos |-> s.pos,
        val |-> << [client_id |-> c.val[1], email_hash |-> h.val[1],
                    expires |-> e.val[1], max_users |-> m.val[1],
                    features |-> f.val[1], issued |-> s.val[1]] >>]

\* ---------------------------------------------- AdvancedLicenseKeyGenerator

\* "your-super-secret-key-change-this-in-production".encode('utf-8'), its first bytes
SECRET_KEY == <<121, 111, 117, 114, 45, 115, 117, 112, 101, 114>>

VERSION == 1

Colon == 58

\* a metadata dict that takes the seat limit for the expiry
MintMetadataSwapped(client_id, email, expires_at, max_users, features, timestamp) ==
  [client_id  |-> client_id,
   email_hash |-> IF email # <<>> THEN Slice(HexDigest(Md5(email)), 0, 8) ELSE <<>>,
   expires    |-> max_users,
   max_users  |-> max_users,
   features   |-> features,
   issued     |-> timestamp]

\* the metadata dict built at mint
MintMetadata(client_id, email, expires_at, max_users, features, timestamp) ==
  [client_id  |-> client_id,
   email_hash |-> IF email # <<>> THEN Slice(HexDigest(Md5(email)), 0, 8) ELSE <<>>,
   expires    |-> IF expires_at # <<>> THEN expires_at[1] ELSE 0,
   max_users  |-> max_users,
   features   |-> features,
   issued     |-> timestamp]

\* version_and_timestamp + client_hash + compressed_metadata
CorePayload(client_id, client_name, email, expires_at, max_users, features, timestamp) ==
     PackBI(VERSION, timestamp)
  \o Slice(Sha256(Decimal(client_id) \o <<Colon>> \o client_name \o <<Colon>> \o email), 0, 8)
  \o ZlibCompress(JsonDumps(
        MintMetadata(client_id, email, expires_at, max_users, features, timestamp)))

\* payload_with_checksum + the first 16 bytes of its HMAC-SHA256 under SECRET_KEY
Signed(payload_with_checksum) ==
  payload_with_checksum \o Slice(HmacSha256(SECRET_KEY, payload_with_checksum), 0, 16)

\* core_payload + struct.pack('>I', zlib.crc32(core_payload)), then signed
Checked(core_payload) == Signed(core_payload \o Crc32(core_payload))

\* core_payload + struct.pack('>I', checksum) + signature
FinalPayload(client_id, client_name, email, expires_at, max_users, features, timestamp) ==
  Checked(CorePayload(client_id, client_name, email, expires_at, max_users, features, timestamp))

\* '-'.join(encoded_key[i:i+5] for i in range(0, len(encoded_key), 5))
DashGroups(encoded_key) ==
  LET n == Len(encoded_key)
      g == (n + 4) \div 5
  IN  IF n = 0 THEN <<>>
      ELSE SubSeq([i \in 1..(n + g - 1) |->
                     IF i % 6 = 0 THEN "-" ELSE encoded_key[i - (i \div 6)]], 1, n + g - 1)

KeyPrefix == <<"A", "L", "K", "-">>

\* generate_advanced_license_key, with timestamp = int(time.time()) passed in
generate_advanced_license_key(client_id, client_name, email, expires_at, max_users, features, timestamp) ==
  KeyPrefix \o DashGroups(B32EncodeStripped(
     FinalPayload(client_id, client_name, email, expires_at, max_users, features, timestamp)))

\* license_key[4:].replace('-', '')
CleanKey(license_key) ==
  SelectSeq(Slice(license_key, 4, Len(license_key)), LAMBDA c : c # "-")

\* clean_key + '=' * ((8 - len(clean_key) % 8) % 8)
PaddedKey(clean_key) ==
  LET padding == (8 - (Len(clean_key) % 8)) % 8
  IN  clean_key \o SubSeq(<<"=", "=", "=", "=", "=", "=", "=">>, 1, padding)

MinPayloadLen == 25

Invalid(error, steps) == [ok |-> FALSE, error |-> error, steps |-> steps, metadata |-> <<>>]

\* the prefixes of the list of checks validate_license_key performs, in order
Steps == <<"prefix", "base32", "length", "version", "checksum", "signature", "metadata">>

\* the embedded expiry compared with >= : a key is expired from the very second
\* of its expires
KeyExpiredInclusive(expires, current_time) == expires > 0 /\ current_time >= expires

\* the embedded expiry given one second of grace
KeyExpiredLate(expires, current_time) == expires > 0 /\ current_time > expires + 1

\* validate_license_key, "metadata.get('expires', 0) > 0 and current_time > ..."
KeyExpired(expires, current_time) == expires > 0 /\ current_time > expires

\* validate_license_key from json.loads on: the dict returned, with the three
\* fields computed at validation added
ValidateMetadata(loaded, current_time) ==
  IF ~loaded.ok
    THEN Invalid("Failed to parse license key metadata", SubSeq(Steps, 1, 7)) ELSE
  [ok |-> TRUE, error |-> "", steps |-> SubSeq(Steps, 1, 7),
   metadata |-> <<[client_id  |-> loaded.val[1].client_id,
                   email_hash |-> loaded.val[1].email_hash,
                   expires    |-> loaded.val[1].expires,
                   max_users  |-> loaded.val[1].max_users,
                   features   |-> loaded.val[1].features,
                   issued     |-> loaded.val[1].issued,
                   is_expired |-> KeyExpired(loaded.val[1].expires, current_time),
                   issued_datetime  |-> <<loaded.val[1].issued>>,
                   expires_datetime |-> IF loaded.val[1].expires # 0
                                          THEN <<loaded.val[1].expires>> ELSE <<>>]>>]

\* zlib.decompress, then json.loads when it succeeded
LoadMetadata(unzipped) == IF unzipped.ok THEN JsonLoads(unzipped.data) ELSE ParseFail

\* the signature compared before the checksum
ValidatePartsMacFirst(core_payload, checksum, signature, compressed_metadata, current_time) ==
  IF signature # Slice(HmacSha256(SECRET_KEY, core_payload \o checksum), 0, 16)
    THEN Invalid("License key signature validation failed", SubSeq(Steps, 1, 6)) ELSE
  IF checksum # Crc32(core_payload)
    THEN Invalid("License key checksum validation failed", SubSeq(Steps, 1, 5)) ELSE
  ValidateMetadata(LoadMetadata(ZlibDecompress(compressed_metadata)), current_time)

\* validate_license_key from the checksum comparison on
ValidateParts(core_payload, checksum, signature, compressed_metadata, current_time) ==
  IF checksum # Crc32(core_payload)
    THEN Invalid("License key checksum validation failed", SubSeq(Steps, 1, 5)) ELSE
  IF signature # Slice(HmacSha256(SECRET_KEY, core_payload \o checksum), 0, 16)
    THEN Invalid("License key signature validation failed", SubSeq(Steps, 1, 6)) ELSE
  ValidateMetadata(LoadMetadata(ZlibDecompress(compressed_metadata)), current_time)

\* the length check asking only for the checksum and the signature
ValidatePayloadShort(payload, current_time) ==
  IF Len(payload) < 20
    THEN Invalid("Invalid license key length", SubSeq(Steps, 1, 3)) ELSE
  IF UnpackVersion(Slice(payload, 0, 5)) # VERSION
    THEN Invalid("Unsupported license key version", SubSeq(Steps, 1, 4)) ELSE
  ValidateParts(Slice(payload, 0, FromEnd(payload, 20)),
                Slice(payload, FromEnd(payload, 20), FromEnd(payload, 16)),
                Slice(payload, FromEnd(payload, 16), Len(payload)),
                Slice(payload, 13, FromEnd(payload, 20)),
                current_time)

\* validate_license_key from the length check on
ValidatePayload(payload, current_time) ==
  IF Len(payload) < MinPayloadLen
    THEN Invalid("Invalid license key length", SubSeq(Steps, 1, 3)) ELSE
  IF UnpackVersion(Slice(payload, 0, 5)) # VERSION
    THEN Invalid("Unsupported license key version", SubSeq(Steps, 1, 4)) ELSE
  ValidateParts(Slice(payload, 0, FromEnd(payload, 20)),
                Slice(payload, FromEnd(payload, 20), FromEnd(payload, 16)),
                Slice(payload, FromEnd(payload, 16), Len(payload)),
                Slice(payload, 13, FromEnd(payload, 20)),
                current_time)

\* validate_license_key from the result of base64.b32decode on
ValidateDecoded(decoded, current_time) ==
  IF ~decoded.ok
    THEN Invalid("base32", SubSeq(Steps, 1, 2))
    ELSE ValidatePayload(decoded.data, current_time)

\* validate_license_key(license_key) with current_time = int(time.time()) passed
\* in. [ok, error, steps, metadata]: steps lists the checks the call performed, in
\* order; error is the message of the ValueError raised ("base32" for the
\* binascii.Error of b32decode), "" when none; metadata is <<the dict returned>>.
validate_license_key(license_key, current_time) ==
  IF Slice(license_key, 0, 4) # KeyPrefix
    THEN Invalid("Invalid license key format", SubSeq(Steps, 1, 1))
    ELSE ValidateDecoded(B32Decode(PaddedKey(CleanKey(license_key))), current_time)

\* ------------------------------------------------------------------ bounds

MaxTime == 2       \* the clock runs over 1..MaxTime
MaxLicenses == 2   \* rows of the License table of the sequential server
MaxShared == 1     \* rows of the License table of the concurrent server
MaxSeats == 2      \* max_users of a created license is in 1..MaxSeats
MaxReq == 2        \* request handlers running at once
MaxBulk == 2       \* count of a bulk creation is in 2..MaxBulk
MaxDevices == 2    \* devices that call the sequential server
SharedDevices == 1 \* devices that call the concurrent server

\* ------------------------------------------------------------- the tables

\* the Client rows: index = Client.id
ClientTable == << [name |-> <<65, 99, 109, 101>>, email |-> <<>>] >>

Reqs == 1..MaxReq
Times == 1..MaxTime

\* an expiry some licenses are created with
ExpiryChoices == {<<1>>}

\* the IP addresses callers come from (<<>>: not supplied)
\* the fingerprints of the devices that may call
Fingerprints == <<"fpA", "fpB", "fpC", "fpD">>
IpChoices == {<<"10.0.0.1">>}

\* a key no license was ever issued with
UnknownKey == <<"L", "I", "C", "-", "0">>

VARIABLES
  now,    \* the wall clock, in seconds
  db,     \* the License table: a sequence of rows, a row's index stands for its pk
  req,    \* req[r]: the request handler r is running, and where it is
  hist,   \* history of what the handlers observed and answered
  conf,   \* the deployment: handlers running at once, rows that fit, calling devices
  cx      \* the codec and policy experiments (CodecSpec, TamperSpec, PolicySpec)

vars == <<now, db, req, hist, conf, cx>>

\* the key a caller presents: the one of license l, or one that never was issued
Presented(l) == IF l \in 1..Len(db) THEN db[l].key ELSE UnknownKey

\* the hardware fingerprint a caller supplies: the one of device d, or none
Supplied(d) == IF d \in 1..conf.devices THEN <<Fingerprints[d]>> ELSE <<>>

\* ------------------------------------------------------------- License

\* License.save() of a new object: the key is generated when none is given
NewLicense(client, email, expires_at, max_users, features, time) ==
  [key |-> generate_advanced_license_key(
             client, ClientTable[client].name,
             IF email # <<>> THEN email ELSE ClientTable[client].email,
             expires_at, max_users, features, time),
   client |-> client, email |-> email, expires_at |-> expires_at,
   is_active |-> TRUE, max_users |-> max_users, features |-> features,
   usage_count |-> 0, last_used |-> <<>>, hardware_fingerprint |-> <<>>,
   ip_restrictions |-> <<>>, domain_restrictions |-> <<>>]

\* a License object no handler holds
NoObject ==
  [key |-> <<>>, client |-> 0, email |-> <<>>, expires_at |-> <<>>,
   is_active |-> FALSE, max_users |-> 0, features |-> <<>>,
   usage_count |-> 0, last_used |-> <<>>, hardware_fingerprint |-> <<>>,
   ip_restrictions |-> <<>>, domain_restrictions |-> <<>>]

InSeq(v, seq) == \E i \in 1..Len(seq) : seq[i] = v

\* str.endswith
EndsWith(str, suffix) ==
  Len(suffix) <= Len(str) /\ SubSeq(str, Len(str) - Len(suffix) + 1, Len(str)) = suffix

Verdict(valid, message, error) == [valid |-> valid, message |-> message, error |-> error]

\* the record's expiry compared with <= : a record is refused from the very
\* second of its expires_at
RecordExpiredInclusive(self, time) == self.expires_at # <<>> /\ self.expires_at[1] <= time

\* is_valid, "if self.expires_at and self.expires_at < timezone.now()"
RecordExpired(self, time) == self.expires_at # <<>> /\ self.expires_at[1] < time

\* the IP rule without its test that the record restricts IPs at all
IpDeniedUnlisted(self, ip_address) ==
  ip_address # <<>> /\ ~InSeq(ip_address[1], self.ip_restrictions)

\* is_valid, "if ip_address and self.ip_restrictions: if ip_address not in ..."
IpDenied(self, ip_address) ==
  ip_address # <<>> /\ self.ip_restrictions # <<>>
  /\ ~InSeq(ip_address[1], self.ip_restrictions)

\* is_valid, "if domain and self.domain_restrictions: ... domain.endswith(allowed_domain)"
DomainDenied(self, domain) ==
  domain # <<>> /\ self.domain_restrictions # <<>>
  /\ ~\E i \in 1..Len(self.domain_restrictions) :
         EndsWith(domain[1], self.domain_restrictions[i])

\* the hardware rule refusing a caller that supplies no fingerprint to a record
\* that has one
HardwareMismatchOmitted(self, hardware_fingerprint) ==
  self.hardware_fingerprint # <<>> /\ self.hardware_fingerprint # hardware_fingerprint

\* is_valid, "if self.hardware_fingerprint and hardware_fingerprint: if ... != ..."
HardwareMismatch(self, hardware_fingerprint) ==
  self.hardware_fingerprint # <<>> /\ hardware_fingerprint # <<>>
  /\ self.hardware_fingerprint # hardware_fingerprint

\* the seat rule comparing with > : one consumption too many passes
SeatsExhaustedStrict(self) == self.usage_count > self.max_users

\* is_valid, "if self.usage_count >= self.max_users"
SeatsExhausted(self) == self.usage_count >= self.max_users

\* License.is_valid from the result of validate_license_key on
KeyRules(self, ip_address, domain, hardware_fingerprint, key_metadata) ==
  IF ~key_metadata.ok
    THEN Verdict(FALSE, "Invalid license key", key_metadata.error) ELSE
  IF key_metadata.metadata[1].is_expired
    THEN Verdict(FALSE, "License key has expired", "") ELSE
  IF key_metadata.metadata[1].client_id # self.client
    THEN Verdict(FALSE, "License key client mismatch", "") ELSE
  IF IpDenied(self, ip_address)
    THEN Verdict(FALSE, "IP address not authorized", "") ELSE
  IF DomainDenied(self, domain)
    THEN Verdict(FALSE, "Domain not authorized", "") ELSE
  IF HardwareMismatch(self, hardware_fingerprint)
    THEN Verdict(FALSE, "Hardware fingerprint mismatch", "") ELSE
  IF SeatsExhausted(self)
    THEN Verdict(FALSE, "Maximum usage limit exceeded", "") ELSE
  Verdict(TRUE, "License is valid", "")

\* is_valid testing the expiry date of the record before its is_active flag
is_valid_expiry_first(self, ip_address, domain, hardware_fingerprint, time) ==
  IF RecordExpired(self, time) THEN Verdict(FALSE, "License has expired", "") ELSE
  IF ~self.is_active THEN Verdict(FALSE, "License is inactive", "") ELSE
  KeyRules(self, ip_address, domain, hardware_fingerprint,
           validate_license_key(self.key, time))

\* License.is_valid(ip_address, domain, hardware_fingerprint) at clock reading
\* time: [valid, message, error], error the codec's message when the key is bad
is_valid(self, ip_address, domain, hardware_fingerprint, time) ==
  IF ~self.is_active THEN Verdict(FALSE, "License is inactive", "") ELSE
  IF RecordExpired(self, time) THEN Verdict(FALSE, "License has expired", "") ELSE
  KeyRules(self, ip_address, domain, hardware_fingerprint,
           validate_license_key(self.key, time))

\* License.increment_usage, up to its save(): the object as it is then written
increment_usage(self, hardware_fingerprint, time) ==
  [self EXCEPT !.usage_count = @ + 1,
               !.last_used = <<time>>,
               !.hardware_fingerprint =
                  IF hardware_fingerprint # <<>> /\ @ = <<>> THEN hardware_fingerprint ELSE @]

\* License.reset_usage, up to its save()
reset_usage(self) == [self EXCEPT !.usage_count = 0]

\* remaining uses that count the validation under way as a use already
get_remaining_uses_after(self) ==
  IF self.max_users - self.usage_count - 1 > 0
    THEN self.max_users - self.usage_count - 1 ELSE 0

\* License.get_remaining_uses
get_remaining_uses(self) ==
  IF self.max_users - self.usage_count > 0 THEN self.max_users - self.usage_count ELSE 0

\* ------------------------------------------------------------- the ORM

\* License.objects.get(key=...): the row's index, 0 for DoesNotExist
FindByKey(table, key) ==
  IF \E i \in 1..Len(table) : table[i].key = key
    THEN CHOOSE i \in 1..Len(table) : table[i].key = key
    ELSE 0

\* a lookup by key alone, whatever client the caller names
FindByKeyAnyClient(table, key, client_id) == FindByKey(table, key)

\* License.objects.get(key=..., client_id=...): the row's index, 0 for DoesNotExist
FindByKeyAndClient(table, key, client_id) ==
  IF \E i \in 1..Len(table) : table[i].key = key /\ table[i].client = client_id
    THEN CHOOSE i \in 1..Len(table) : table[i].key = key /\ table[i].client = client_id
    ELSE 0

\* the unique=True constraint on License.key, checked by the UPDATE of row lic
KeyHeldByOther(table, lic, key) ==
  \E i \in 1..Len(table) : i # lic /\ table[i].key = key

\* Model.save() of a loaded object: an UPDATE of every column of the row
SaveRow(table, lic, obj) == [table EXCEPT ![lic] = obj]

\* the unique=True constraint on License.key, checked by the INSERT
KeyTaken(table, key) == \E i \in 1..Len(table) : table[i].key = key

\* ------------------------------------------------------------- history

Idle ==
  [pc |-> "idle", op |-> "", lic |-> 0, obj |-> NoObject, ip |-> <<>>, fp |-> <<>>,
   left |-> 0, made |-> 0]

\* the answer of the request that ended in the last step (op = "": none ended)
NoLast ==
  [op |-> "", lic |-> 0, success |-> FALSE, message |-> "",
   delta |-> 0,        \* persisted usage_count after the step minus before it
   stamped |-> FALSE,  \* persisted last_used is the time of the step
   clash |-> FALSE,    \* a fingerprint was supplied, one was bound, and they differ
   remaining |-> 0,    \* remaining_uses in the answer of a validation
   claimed |-> 0,      \* the client_id the caller of a validation named
   owner |-> 0]        \* the client of the row that holds the key presented, 0: no row

Last(op, lic, success, message) ==
  [NoLast EXCEPT !.op = op, !.lic = lic, !.success = success, !.message = message]

HistInit ==
  [last    |-> NoLast,
   touched |-> [l \in 1..MaxLicenses |-> FALSE],  \* an administrative request has loaded it
   seen    |-> [l \in 1..MaxLicenses |-> {}],     \* usage_count values successful consumptions loaded
   dup     |-> FALSE,                              \* two of them loaded the same value
   wins    |-> [l \in 1..MaxLicenses |-> 0]]      \* how many of them there were, up to MaxSeats + 1

Quiet == [hist EXCEPT !.last = NoLast]

\* ------------------------------------------------------------- handlers

ServerInit ==
  /\ now = 1
  /\ db = <<>>
  /\ req = [r \in Reqs |-> Idle]
  /\ hist = HistInit
  /\ cx = [phase |-> "none"]

\* a handler is free to take a request
Free(r) == r <= conf.workers /\ req[r].pc = "idle"

\* rows the table still has room for, the ones running bulk creations will add
\* counted as taken
RECURSIVE Reserved(_)
Reserved(r) == IF r = 0 THEN 0 ELSE req[r].left + Reserved(r - 1)

Room == conf.rows - Len(db) - Reserved(MaxReq)

\* time passes
Tick ==
  /\ now < MaxTime
  /\ now' = now + 1
  /\ hist' = Quiet
  /\ UNCHANGED <<db, req, conf, cx>>

\* Model.save() of a new object: the INSERT, refused with IntegrityError when
\* the key is already in the table
Insert(op, obj) ==
  IF KeyTaken(db, obj.key)
    THEN /\ db' = db
         /\ hist' = [hist EXCEPT !.last = Last(op, 0, FALSE, "IntegrityError")]
    ELSE /\ db' = Append(db, obj)
         /\ hist' = [hist EXCEPT !.last = Last(op, Len(db) + 1, TRUE, "")]

\* LicenseViewSet.create -> LicenseCreateSerializer.create -> License.objects.create:
\* one INSERT; a key that is already in the table raises IntegrityError
CreateLicense(r, expires_at, max_users) ==
  /\ Free(r)
  /\ Room >= 1
  /\ Insert("create", NewLicense(1, <<>>, expires_at, max_users, <<>>, now))
  /\ UNCHANGED <<now, req, conf, cx>>

\* BulkLicenseCreateView.post, up to the loop of bulk_generate_licenses
BulkBegin(r, count, expires_at, max_users) ==
  /\ Free(r)
  /\ Room >= count
  /\ req' = [req EXCEPT ![r] =
       [Idle EXCEPT !.pc = "bulk", !.op = "bulk", !.left = count,
                    !.obj = [NoObject EXCEPT !.expires_at = expires_at,
                                             !.max_users = max_users]]]
  /\ hist' = Quiet
  /\ UNCHANGED <<now, db, conf, cx>>

\* License(...).save() inside the loop of bulk_generate_licenses
BulkInsert(r, obj) ==
  IF KeyTaken(db, obj.key)
    THEN /\ db' = db
         /\ req' = [req EXCEPT ![r] = Idle]
         /\ hist' = [hist EXCEPT !.last =
              [Last("bulk", 0, FALSE, "IntegrityError") EXCEPT !.delta = req[r].made]]
    ELSE /\ db' = Append(db, obj)
         /\ IF req[r].left = 1
              THEN /\ req' = [req EXCEPT ![r] = Idle]
                   /\ hist' = [hist EXCEPT !.last =
                        [Last("bulk", Len(db) + 1, TRUE, "") EXCEPT !.delta = req[r].made + 1]]
              ELSE /\ req' = [req EXCEPT ![r].left = @ - 1, ![r].made = @ + 1]
                   /\ hist' = Quiet

\* one iteration of the loop of bulk_generate_licenses
BulkStep(r) ==
  /\ req[r].pc = "bulk"
  /\ BulkInsert(r, NewLicense(1, ClientTable[1].email, req[r].obj.expires_at,
                              req[r].obj.max_users, <<>>, now))
  /\ UNCHANGED <<now, conf, cx>>

\* LicenseUsageView.post, up to License.objects.get(key=license_key): the
\* serializer's lookup and the view's are one read here
UsageLoad(r, key, ip, fp) ==
  /\ Free(r)
  /\ LET lic == FindByKey(db, key)
     IN  IF lic = 0
           THEN /\ req' = req
                /\ hist' = [hist EXCEPT !.last = Last("usage", 0, FALSE, "License not found")]
           ELSE /\ req' = [req EXCEPT ![r] =
                     [Idle EXCEPT !.pc = "loaded", !.op = "usage", !.lic = lic,
                                  !.obj = db[lic], !.ip = ip, !.fp = fp]]
                /\ hist' = Quiet
  /\ UNCHANGED <<now, db, conf, cx>>

\* the answer of a track-usage request, as the history keeps it
UsageAnswer(r, verdict) ==
  [Last("usage", req[r].lic, verdict.valid, verdict.message)
     EXCEPT !.delta = db'[req[r].lic].usage_count - db[req[r].lic].usage_count,
            !.stamped = db'[req[r].lic].last_used = <<now>>,
            !.clash = /\ req[r].fp # <<>>
                      /\ req[r].obj.hardware_fingerprint # <<>>
                      /\ req[r].fp # req[r].obj.hardware_fingerprint]

\* LicenseUsageView.post, the valid branch: increment_usage and its save()
UsageAccept(r) ==
  LET lic == req[r].lic IN
  /\ db' = SaveRow(db, lic, increment_usage(req[r].obj, req[r].fp, now))
  /\ hist' = [hist EXCEPT
       !.last = UsageAnswer(r, Verdict(TRUE, "Usage recorded successfully", "")),
       !.seen[lic] = IF hist.touched[lic] THEN {} ELSE @ \cup {req[r].obj.usage_count},
       !.dup = @ \/ (~hist.touched[lic] /\ req[r].obj.usage_count \in hist.seen[lic]),
       !.wins[lic] = IF hist.touched[lic] \/ @ > MaxSeats THEN @ ELSE @ + 1]

\* an invalid branch that records the attempt on the row before answering
UsageRejectTouching(r, verdict) ==
  /\ db' = SaveRow(db, req[r].lic, [req[r].obj EXCEPT !.last_used = <<now>>])
  /\ hist' = [hist EXCEPT !.last = UsageAnswer(r, verdict)]

\* LicenseUsageView.post, the invalid branch: the 403 answer, nothing is saved
UsageReject(r, verdict) ==
  /\ db' = db
  /\ hist' = [hist EXCEPT !.last = UsageAnswer(r, verdict)]

\* LicenseUsageView.post, the branch on the verdict of is_valid
UsageRespond(r, verdict) == IF verdict.valid THEN UsageAccept(r) ELSE UsageReject(r, verdict)

\* LicenseUsageView.post from is_valid on: validate the loaded object, then
\* record the usage or refuse
UsageFinish(r) ==
  /\ req[r].pc = "loaded"
  /\ req[r].op = "usage"
  /\ UsageRespond(r, is_valid(req[r].obj, req[r].ip, <<>>, req[r].fp, now))
  /\ req' = [req EXCEPT ![r] = Idle]
  /\ UNCHANGED <<now, conf, cx>>

AdminOps == {"deactivate", "activate", "reset_usage"}

\* LicenseViewSet.deactivate / activate / reset_usage, up to self.get_object()
AdminLoad(r, op, lic) ==
  /\ Free(r)
  /\ lic \in 1..Len(db)
  /\ req' = [req EXCEPT ![r] =
       [Idle EXCEPT !.pc = "loaded", !.op = op, !.lic = lic, !.obj = db[lic]]]
  /\ hist' = [hist EXCEPT !.last = NoLast,
                          !.touched[lic] = TRUE, !.seen[lic] = {},
                          !.wins[lic] = 0]
  /\ UNCHANGED <<now, db, conf, cx>>

\* the object the action writes
AdminEdit(op, obj) ==
  IF op = "deactivate" THEN [obj EXCEPT !.is_active = FALSE]
  ELSE IF op = "activate" THEN [obj EXCEPT !.is_active = TRUE]
  ELSE reset_usage(obj)

\* LicenseViewSet.deactivate / activate / reset_usage from the assignment on:
\* the field is set on the loaded object and save() writes the whole row
AdminSave(r) ==
  /\ req[r].pc = "loaded"
  /\ req[r].op \in AdminOps
  /\ db' = SaveRow(db, req[r].lic, AdminEdit(req[r].op, req[r].obj))
  /\ hist' = [hist EXCEPT !.last = Last(req[r].op, req[r].lic, TRUE, "")]
  /\ req' = [req EXCEPT ![r] = Idle]
  /\ UNCHANGED <<now, conf, cx>>

\* the client ids a caller may name: the client there is, and another one
ClaimedClients == {1, 2}

\* the client of the row holding a key, 0 when no row holds it
OwnerOf(table, key) ==
  IF FindByKey(table, key) = 0 THEN 0 ELSE table[FindByKey(table, key)].client

\* the dict validate_license_with_context returns for the row found
ContextResult(license_obj, verdict) ==
  [valid |-> verdict.valid, message |-> verdict.message,
   remaining_uses |-> get_remaining_uses(license_obj)]

\* the dict validate_license_with_context returns on License.DoesNotExist
ContextNotFound == [valid |-> FALSE, message |-> "License not found", remaining_uses |-> 0]

\* LicenseManager.validate_license_with_context from the lookup on
ContextLookup(lic, ip_address, hardware_fingerprint) ==
  IF lic = 0 THEN ContextNotFound
  ELSE ContextResult(db[lic], is_valid(db[lic], ip_address, <<>>, hardware_fingerprint, now))

\* LicenseManager.validate_license_with_context
validate_license_with_context(license_key, client_id, ip_address, hardware_fingerprint) ==
  ContextLookup(FindByKeyAndClient(db, license_key, client_id), ip_address,
                hardware_fingerprint)

\* the answer of a validation request, as the history keeps it
ContextAnswer(result, lic, claimed, owner) ==
  [Last("validate", lic, result.valid, result.message)
     EXCEPT !.remaining = result.remaining_uses, !.claimed = claimed, !.owner = owner]

\* LicenseValidationView.post -> LicenseValidationSerializer.validate ->
\* validate_license_with_context: one read of the table, nothing is written
ValidateContext(key, client_id, ip, d) ==
  /\ {r \in Reqs : Free(r)} # {}
  /\ d <= conf.devices
  /\ hist' = [hist EXCEPT !.last =
       ContextAnswer(validate_license_with_context(key, client_id, ip, Supplied(d)),
                     FindByKeyAndClient(db, key, client_id), client_id, OwnerOf(db, key))]
  /\ UNCHANGED <<now, db, req, conf, cx>>

\* LicenseKeyGenerationView.post, up to get_object_or_404(License, id=license_id)
RegenerateLoad(r, lic) ==
  /\ Free(r)
  /\ lic \in 1..Len(db)
  /\ req' = [req EXCEPT ![r] =
       [Idle EXCEPT !.pc = "loaded", !.op = "regenerate", !.lic = lic, !.obj = db[lic]]]
  /\ hist' = [hist EXCEPT !.last = NoLast,
                          !.touched[lic] = TRUE, !.seen[lic] = {},
                          !.wins[lic] = 0]
  /\ UNCHANGED <<now, db, conf, cx>>

\* the key LicenseKeyGenerationView.post generates for the loaded object
NewKey(license_obj, time) ==
  generate_advanced_license_key(
    license_obj.client, ClientTable[license_obj.client].name,
    IF license_obj.email # <<>> THEN license_obj.email
                                ELSE ClientTable[license_obj.client].email,
    license_obj.expires_at, license_obj.max_users, license_obj.features, time)

\* license_obj.key = new_key; license_obj.save(): the UPDATE of the whole row,
\* refused with IntegrityError when another row holds the key
RegenerateWrite(r, new_key) ==
  IF KeyHeldByOther(db, req[r].lic, new_key)
    THEN /\ db' = db
         /\ hist' = [hist EXCEPT !.last =
              Last("regenerate", req[r].lic, FALSE, "IntegrityError")]
    ELSE /\ db' = SaveRow(db, req[r].lic, [req[r].obj EXCEPT !.key = new_key])
         /\ hist' = [hist EXCEPT !.last = Last("regenerate", req[r].lic, TRUE, "")]

\* LicenseKeyGenerationView.post from the generation of the new key on
RegenerateSave(r) ==
  /\ req[r].pc = "loaded"
  /\ req[r].op = "regenerate"
  /\ RegenerateWrite(r, NewKey(req[r].obj, now))
  /\ req' = [req EXCEPT ![r] = Idle]
  /\ UNCHANGED <<now, conf, cx>>

\* the expires_at and the IP address administrators write
EditExpiries == {<<>>, <<MaxTime>>}
EditIps == {"10.0.0.2"}

\* the domain administrators restrict a license to: "a.io"
EditDomains == {<<"a", ".", "i", "o">>}

\* ModelSerializer.update: the validated fields are set on the instance
UpdateEdit(instance, expires_at, max_users) ==
  [instance EXCEPT !.expires_at = expires_at, !.max_users = max_users]

\* LicenseViewSet.update (PUT /licenses/<pk>/) up to serializer.save(): the row
\* is read and the writable fields of LicenseSerializer are set on the instance
UpdateLoad(r, lic, expires_at, max_users) ==
  /\ Free(r)
  /\ lic \in 1..Len(db)
  /\ req' = [req EXCEPT ![r] =
       [Idle EXCEPT !.pc = "loaded", !.op = "update", !.lic = lic,
                    !.obj = UpdateEdit(db[lic], expires_at, max_users)]]
  /\ hist' = [hist EXCEPT !.last = NoLast,
                          !.touched[lic] = TRUE, !.seen[lic] = {},
                          !.wins[lic] = 0]
  /\ UNCHANGED <<now, db, conf, cx>>

\* LicenseViewSet.add_ip_restriction up to the save() of License.add_ip_restriction;
\* an address already listed ends the request without a save()
RestrictIpLoad(r, lic, ip_address) ==
  /\ Free(r)
  /\ lic \in 1..Len(db)
  /\ IF InSeq(ip_address, db[lic].ip_restrictions)
       THEN /\ req' = req
            /\ hist' = [hist EXCEPT !.last = Last("add_ip_restriction", lic, TRUE, ""),
                                    !.touched[lic] = TRUE, !.seen[lic] = {},
                          !.wins[lic] = 0]
       ELSE /\ req' = [req EXCEPT ![r] =
                 [Idle EXCEPT !.pc = "loaded", !.op = "add_ip_restriction", !.lic = lic,
                              !.obj = [db[lic] EXCEPT !.ip_restrictions =
                                                        Append(@, ip_address)]]]
            /\ hist' = [hist EXCEPT !.last = NoLast,
                                    !.touched[lic] = TRUE, !.seen[lic] = {},
                          !.wins[lic] = 0]
  /\ UNCHANGED <<now, db, conf, cx>>

\* LicenseViewSet.add_domain_restriction up to the save() of
\* License.add_domain_restriction; a domain already listed ends the request
\* without a save()
RestrictDomainLoad(r, lic, domain) ==
  /\ Free(r)
  /\ lic \in 1..Len(db)
  /\ IF InSeq(domain, db[lic].domain_restrictions)
       THEN /\ req' = req
            /\ hist' = [hist EXCEPT !.last = Last("add_domain_restriction", lic, TRUE, ""),
                                    !.touched[lic] = TRUE, !.seen[lic] = {},
                          !.wins[lic] = 0]
       ELSE /\ req' = [req EXCEPT ![r] =
                 [Idle EXCEPT !.pc = "loaded", !.op = "add_domain_restriction", !.lic = lic,
                              !.obj = [db[lic] EXCEPT !.domain_restrictions =
                                                        Append(@, domain)]]]
            /\ hist' = [hist EXCEPT !.last = NoLast,
                                    !.touched[lic] = TRUE, !.seen[lic] = {},
                          !.wins[lic] = 0]
  /\ UNCHANGED <<now, db, conf, cx>>

EditOps == {"update", "add_ip_restriction", "add_domain_restriction"}

\* instance.save() of LicenseViewSet.update and self.save() of
\* License.add_ip_restriction / add_domain_restriction: the UPDATE of the whole row
EditSave(r) ==
  /\ req[r].pc = "loaded"
  /\ req[r].op \in EditOps
  /\ db' = SaveRow(db, req[r].lic, req[r].obj)
  /\ hist' = [hist EXCEPT !.last = Last(req[r].op, req[r].lic, TRUE, "")]
  /\ req' = [req EXCEPT ![r] = Idle]
  /\ UNCHANGED <<now, conf, cx>>

\* the requests on licenses that exist
Serve ==
  \/ Tick
  \/ \E r \in Reqs, e \in ExpiryChoices, m \in 1..MaxSeats : CreateLicense(r, e, m)
  \/ \E r \in Reqs, l \in 0..MaxLicenses, ip \in IpChoices, fp \in 0..MaxDevices :
       UsageLoad(r, Presented(l), ip, Supplied(fp))
  \/ \E r \in Reqs : UsageFinish(r)
  \/ \E r \in Reqs, op \in AdminOps, l \in 1..MaxLicenses : AdminLoad(r, op, l)
  \/ \E r \in Reqs : AdminSave(r)

\* the track-usage requests of the callers' devices, and nothing else
Consume ==
  \/ Tick
  \/ \E r \in Reqs, e \in ExpiryChoices, m \in 1..MaxSeats : CreateLicense(r, e, m)
  \/ \E r \in Reqs, l \in 0..MaxShared, ip \in IpChoices, fp \in 0..MaxDevices :
       UsageLoad(r, Presented(l), ip, Supplied(fp))
  \/ \E r \in Reqs : UsageFinish(r)

\* the validation of a key with its context
Inspect ==
  \E l \in 0..MaxShared, c \in ClaimedClients, ip \in IpChoices, d \in 0..SharedDevices :
     ValidateContext(Presented(l), c, ip, d)

\* the bulk creation
Bulk ==
  \/ \E r \in Reqs, c \in 2..MaxBulk, e \in ExpiryChoices, m \in 1..MaxSeats :
       BulkBegin(r, c, e, m)
  \/ \E r \in Reqs : BulkStep(r)

\* the regeneration of the key of a license
Rekey ==
  \/ \E r \in Reqs, l \in 1..MaxLicenses : RegenerateLoad(r, l)
  \/ \E r \in Reqs : RegenerateSave(r)

\* the edits of the fields of a license
Edit ==
  \/ \E r \in Reqs, l \in 1..MaxShared, e \in EditExpiries, m \in 1..MaxSeats :
       UpdateLoad(r, l, e, m)
  \/ \E r \in Reqs, l \in 1..MaxShared, ip \in EditIps : RestrictIpLoad(r, l, ip)
  \/ \E r \in Reqs, l \in 1..MaxShared, d \in EditDomains : RestrictDomainLoad(r, l, d)
  \/ \E r \in Reqs : EditSave(r)

Next == Serve \/ Bulk \/ Inspect \/ Rekey \/ Edit

\* the server with one handler: a request starts when the one before has ended
SeqInit == ServerInit /\ conf = [workers |-> 1, rows |-> MaxLicenses, devices |-> MaxDevices]

SeqSpec == SeqInit /\ [][Serve \/ Bulk]_vars

\* one handler, callers on one device, and keys that are regenerated
RekeyInit ==
  ServerInit /\ conf = [workers |-> 1, rows |-> MaxLicenses, devices |-> SharedDevices]

RekeySpec == RekeyInit /\ [][Serve \/ Rekey]_vars

\* MaxReq handlers whose reads and writes interleave, and validations of keys
\* with their context; no caller supplies a fingerprint
InspectInit ==
  ServerInit /\ conf = [workers |-> MaxReq, rows |-> MaxShared, devices |-> 0]

InspectSpec == InspectInit /\ [][Serve \/ Inspect]_vars

\* one handler, one row, callers on one device, and administrators who edit the
\* fields of the license and regenerate its key
EditInit ==
  ServerInit /\ conf = [workers |-> 1, rows |-> MaxShared, devices |-> SharedDevices]

EditSpec == EditInit /\ [][Serve \/ Edit \/ Rekey]_vars

\* one handler, one row, callers that supply no fingerprint: consumptions and
\* validations of a key whose record administrators edit
TerminalInit ==
  ServerInit /\ conf = [workers |-> 1, rows |-> MaxShared, devices |-> 0]

TerminalSpec == TerminalInit /\ [][Serve \/ Edit \/ Inspect]_vars

\* MaxReq handlers serving track-usage requests from MaxDevices devices on one
\* license that no administrator touches
ConsumeInit ==
  ServerInit /\ conf = [workers |-> MaxReq, rows |-> MaxShared, devices |-> MaxDevices]

ConsumeSpec == ConsumeInit /\ [][Consume]_vars

\* the server with MaxReq handlers, whose reads and writes of the table interleave
Init ==
  ServerInit /\ conf = [workers |-> MaxReq, rows |-> MaxShared, devices |-> SharedDevices]

Spec == Init /\ [][Serve]_vars

\* ------------------------------------------------------------- the codec

MaxDelta == 2      \* a substituted character is 1..MaxDelta places further in the alphabet

\* feature names "a" and "b"
FeatureA == <<97>>
FeatureB == <<98>>

\* the feature dicts issued: the last two hold the same items, inserted in
\* opposite orders
FeatureChoices ==
  { <<>>, << <<FeatureA, 1>> >>,
    << <<FeatureA, 1>>, <<FeatureB, 0>> >>, << <<FeatureB, 0>>, <<FeatureA, 1>> >> }

\* the arguments of generate_advanced_license_key tried
IssuanceParameters ==
  [client_id : {1}, email : {<<>>, <<97, 64, 98>>}, expires_at : ExpiryChoices \cup {<<>>},
   max_users : 1..MaxSeats, features : FeatureChoices]

\* generate_advanced_license_key(**P) at clock reading time
Mint(P, time) ==
  generate_advanced_license_key(P.client_id, ClientTable[P.client_id].name, P.email,
                                P.expires_at, P.max_users, P.features, time)

CodecIdle ==
  /\ db = <<>>
  /\ req = [r \in Reqs |-> Idle]
  /\ hist = HistInit
  /\ conf = [workers |-> 0, rows |-> 0, devices |-> 0]

CodecInit ==
  /\ CodecIdle
  /\ now = 1
  /\ cx = [phase |-> "start"]

\* time passes between two calls of the codec
CodecTick ==
  /\ now < MaxTime
  /\ now' = now + 1
  /\ UNCHANGED <<db, req, hist, conf, cx>>

\* a key is generated from P and validated at once
CodecMint(P) ==
  /\ cx.phase = "start"
  /\ cx' = [phase |-> "minted", P |-> P, issued |-> now, key |-> Mint(P, now),
            at |-> now, decoded |-> validate_license_key(Mint(P, now), now)]
  /\ UNCHANGED <<now, db, req, hist, conf>>

\* the key is validated again, at the time the clock shows now
CodecValidate ==
  /\ cx.phase = "minted"
  /\ cx' = [cx EXCEPT !.at = now, !.decoded = validate_license_key(cx.key, now)]
  /\ UNCHANGED <<now, db, req, hist, conf>>

\* a second key is generated from the same arguments but for the features dict
CodecMintAgain(features) ==
  /\ cx.phase = "minted"
  /\ cx' = [phase |-> "twice", P |-> cx.P, issued |-> cx.issued, key |-> cx.key,
            features2 |-> features, issued2 |-> now,
            key2 |-> Mint([cx.P EXCEPT !.features = features], now)]
  /\ UNCHANGED <<now, db, req, hist, conf>>

CodecNext ==
  \/ CodecTick
  \/ \E P \in IssuanceParameters : CodecMint(P)
  \/ CodecValidate
  \/ \E f \in FeatureChoices : CodecMintAgain(f)

\* keys generated and validated, over the arguments above and the clock
CodecSpec == CodecInit /\ [][CodecNext]_vars

\* the six entries generate_advanced_license_key puts in the metadata dict, read
\* off the arguments of the call
Embedded(P, issued, metadata) ==
  /\ metadata.client_id = P.client_id
  /\ metadata.email_hash =
       (IF P.email = <<>> THEN <<>> ELSE Slice(HexDigest(Md5(P.email)), 0, 8))
  /\ metadata.expires = (IF P.expires_at = <<>> THEN 0 ELSE P.expires_at[1])
  /\ metadata.max_users = P.max_users
  /\ metadata.features = P.features
  /\ metadata.issued = issued

EmbeddedKeys == {"client_id", "email_hash", "expires", "max_users", "features", "issued"}

\* C6: validating a key generated from (P, t) succeeds and returns exactly the
\* dict embedded at mint: its six entries unaltered, none dropped, none added.
C6_RoundTripExact ==
  cx.phase = "minted" =>
    /\ cx.decoded.ok
    /\ Embedded(cx.P, cx.issued, cx.decoded.metadata[1])
    /\ DOMAIN cx.decoded.metadata[1] = EmbeddedKeys

\* C6, amended: validating a key generated from (P, t) succeeds and returns the
\* six embedded entries unaltered, together with three entries computed at
\* validation: is_expired, issued_datetime and expires_datetime.
C6_RoundTripEmbedded ==
  cx.phase = "minted" =>
    /\ cx.decoded.ok
    /\ Embedded(cx.P, cx.issued, cx.decoded.metadata[1])
    /\ DOMAIN cx.decoded.metadata[1] =
         EmbeddedKeys \cup {"is_expired", "issued_datetime", "expires_datetime"}
    /\ cx.decoded.metadata[1].is_expired =
         (cx.P.expires_at # <<>> /\ cx.at > cx.P.expires_at[1])
    /\ cx.decoded.metadata[1].issued_datetime = <<cx.issued>>
    /\ cx.decoded.metadata[1].expires_datetime = cx.P.expires_at

\* a key with an email, an expiry and two features was validated after its expiry
C6_Witness ==
  /\ cx.phase = "minted"
  /\ cx.P.email # <<>> /\ cx.P.expires_at # <<>> /\ Len(cx.P.features) = 2
  /\ cx.decoded.ok /\ cx.decoded.metadata[1].features = cx.P.features
  /\ cx.decoded.metadata[1].is_expired

\* two dicts hold the same items, whatever the order
SameItems(f, g) ==
  Len(f) = Len(g) /\ {f[i] : i \in 1..Len(f)} = {g[i] : i \in 1..Len(g)}

TamperParameters ==
  { P \in IssuanceParameters :
      P.email = <<>> /\ P.expires_at = <<>> /\ P.max_users = 1 /\ Len(P.features) # 1 }

TamperInit ==
  /\ CodecIdle
  /\ now = 1
  /\ \E P \in TamperParameters :
       cx = [phase |-> "token", key |-> Mint(P, 1), pos |-> 0]

\* what the checks of validate_license_key would find on a key, each looked at
\* on its own: framed (prefix, Base32, length and version are good), crc (the
\* checksum matches), mac (the signature matches)
PayloadFacts(payload) ==
  [framed |-> Len(payload) >= MinPayloadLen /\ payload[1] = VERSION,
   crc    |-> Slice(payload, FromEnd(payload, 20), FromEnd(payload, 16))
                = Crc32(Slice(payload, 0, FromEnd(payload, 20))),
   mac    |-> Slice(payload, FromEnd(payload, 16), Len(payload))
                = Slice(HmacSha256(SECRET_KEY, Slice(payload, 0, FromEnd(payload, 16))),
                        0, 16)]

DecodedFacts(decoded) ==
  IF decoded.ok THEN PayloadFacts(decoded.data)
  ELSE [framed |-> FALSE, crc |-> FALSE, mac |-> FALSE]

KeyFacts(license_key) ==
  IF Slice(license_key, 0, 4) # KeyPrefix
    THEN [framed |-> FALSE, crc |-> FALSE, mac |-> FALSE]
    ELSE DecodedFacts(B32Decode(PaddedKey(CleanKey(license_key))))

\* the altered key is validated; the result is kept with what was altered
Examined(kind, pos, license_key) ==
  [phase |-> "checked", key |-> cx.key, kind |-> kind, pos |-> pos,
   last |-> pos = Len(cx.key),
   out |-> validate_license_key(license_key, now),
   facts |-> KeyFacts(license_key)]

\* one character of the Base32 region is replaced by the one delta places
\* further in the alphabet
TamperShift(delta) ==
  /\ cx.phase = "token"
  /\ \E i \in 5..Len(cx.key) :
       /\ cx.key[i] # "-"
       /\ cx' = Examined("shift", i,
            [cx.key EXCEPT ![i] = B32Alphabet[((B32Val(cx.key[i]) + delta) % 32) + 1]])
  /\ UNCHANGED <<now, db, req, hist, conf>>

\* one character of the Base32 region is replaced by a character outside the
\* alphabet
TamperForeign(c) ==
  /\ cx.phase = "token"
  /\ \E i \in 5..Len(cx.key) :
       /\ cx.key[i] # "-"
       /\ cx' = Examined("foreign", i, [cx.key EXCEPT ![i] = c])
  /\ UNCHANGED <<now, db, req, hist, conf>>

\* one character of the "ALK-" prefix is replaced
TamperPrefix ==
  /\ cx.phase = "token"
  /\ \E i \in 1..4 : cx' = Examined("prefix", i, [cx.key EXCEPT ![i] = "X"])
  /\ UNCHANGED <<now, db, req, hist, conf>>

\* the key is cut after n characters of its Base32 region
TamperCut ==
  /\ cx.phase = "token"
  /\ \E n \in 5..(Len(cx.key) - 1) : cx' = Examined("cut", n, SubSeq(cx.key, 1, n))
  /\ UNCHANGED <<now, db, req, hist, conf>>

\* the ways a key is typed again
RetypeKinds == {"lower", "unhyphenated", "rehyphenated"}

\* a key typed again: its Base32 region in lower case, without its hyphens, or
\* with one hyphen, after the third character
Retyped(kind, license_key) ==
  IF kind = "lower"
    THEN KeyPrefix \o SubSeq(Lower(Slice(license_key, 4, Len(license_key))),
                             1, Len(license_key) - 4)
  ELSE IF kind = "unhyphenated" THEN KeyPrefix \o CleanKey(license_key)
  ELSE KeyPrefix \o SubSeq(CleanKey(license_key), 1, 3) \o <<"-">>
         \o SubSeq(CleanKey(license_key), 4, Len(CleanKey(license_key)))

\* the key is typed again and validated
TamperRetype(kind) ==
  /\ cx.phase = "token"
  /\ cx' = Examined(kind, 0, Retyped(kind, cx.key))
  /\ UNCHANGED <<now, db, req, hist, conf>>

\* the payload of a key
PayloadOf(license_key) == B32Decode(PaddedKey(CleanKey(license_key))).data

\* a key for a payload
KeyOf(payload) == KeyPrefix \o DashGroups(B32EncodeStripped(payload))

\* a core payload, its checksum and a signature
Rechecked(core_payload, signature) ==
  SubSeq(core_payload, 1, Len(core_payload)) \o Crc32(core_payload) \o signature

\* core with byte j raised by delta, its checksum computed anew, and the old
\* signature
Forged(payload, j, delta) ==
  Rechecked([k \in 1..(Len(payload) - 20) |->
               IF k = j THEN (payload[k] + delta) % 256 ELSE payload[k]],
            Slice(payload, FromEnd(payload, 16), Len(payload)))

\* someone without SECRET_KEY alters one byte of the core payload and fixes the
\* checksum, which needs no secret
TamperForge(delta) ==
  /\ cx.phase = "token"
  /\ \E j \in 1..(Len(PayloadOf(cx.key)) - 20) :
       cx' = Examined("forge", j, KeyOf(Forged(PayloadOf(cx.key), j, delta)))
  /\ UNCHANGED <<now, db, req, hist, conf>>

TamperNext ==
  \/ \E d \in 1..MaxDelta : TamperShift(d)
  \/ \E c \in {"a", "1", "=", "-"} : TamperForeign(c)
  \/ TamperPrefix
  \/ TamperCut
  \/ \E d \in 1..MaxDelta : TamperForge(d)
  \/ \E k \in RetypeKinds : TamperRetype(k)

\* every way above of altering a generated key, each validated
TamperSpec == TamperInit /\ [][TamperNext]_vars

\* C8: a key that differs from a generated key in one character of its Base32
\* region, the last one included, is rejected by validate_license_key.
C8_TamperRejected ==
  (cx.phase = "checked" /\ cx.kind \in {"shift", "foreign"}) => ~cx.out.ok

\* C10: validate_license_key checks framing and length (prefix, Base32, length,
\* version), then the checksum, then the signature, then the metadata: a key
\* whose checksum and signature are both wrong is reported for its checksum, a
\* key with a right checksum and a wrong signature for its signature, and the
\* metadata is decompressed only when both have verified.
C10_ValidationOrder ==
  cx.phase = "checked" =>
    /\ (cx.facts.framed /\ ~cx.facts.crc)
         => cx.out.error = "License key checksum validation failed"
    /\ (cx.facts.framed /\ cx.facts.crc /\ ~cx.facts.mac)
         => cx.out.error = "License key signature validation failed"
    /\ (\E i \in 1..Len(cx.out.steps) : cx.out.steps[i] = "metadata")
         => (cx.facts.framed /\ cx.facts.crc /\ cx.facts.mac)
    /\ ~cx.facts.framed
         => (~cx.out.ok /\ \A i \in 1..Len(cx.out.steps) :
                              cx.out.steps[i] \notin {"checksum", "signature", "metadata"})

\* a well-framed key whose checksum and signature are both wrong was reported
\* for its checksum
C10_Witness ==
  /\ cx.phase = "checked"
  /\ cx.facts.framed /\ ~cx.facts.crc /\ ~cx.facts.mac
  /\ cx.out.error = "License key checksum validation failed"

\* ------------------------------------------------------------- identities

\* client names and emails keys are issued for, as UTF-8 bytes: "A" and "A:mi",
\* no email, "c" and "mi:c"
IdentityNames == {<<65>>, <<65, 58, 109, 105>>}
IdentityEmails == {<<>>, <<99>>, <<109, 105, 58, 99>>}

\* the (client_id, client_name, email) a key is issued for
Identities == [client_id : {1, 2}, client_name : IdentityNames, email : IdentityEmails]

\* generate_advanced_license_key for an identity, everything else left at its
\* default: no expiry, one user, no features
IdentityKey(identity, time) ==
  generate_advanced_license_key(identity.client_id, identity.client_name, identity.email,
                                <<>>, 1, <<>>, time)

\* two keys are generated in the same second, for identities a and b
IdentityMint(a, b) ==
  /\ cx.phase = "start"
  /\ cx' = [phase |-> "pair", a |-> a, b |-> b,
            key_a |-> IdentityKey(a, now), key_b |-> IdentityKey(b, now)]
  /\ UNCHANGED <<now, db, req, hist, conf>>

IdentityNext == \E a \in Identities, b \in Identities : IdentityMint(a, b)

\* pairs of keys generated in one second
IdentitySpec == CodecInit /\ [][IdentityNext]_vars

\* C18: two keys generated in the same second for identities whose
\* (client_id, client_name, email) differ are different strings.
C18_IdentitiesDistinct ==
  (cx.phase = "pair" /\ cx.a # cx.b) => cx.key_a # cx.key_b

\* ------------------------------------------------------------- fingerprints

\* "|", as a UTF-8 byte
Bar == 124

\* the keys and values of the system_info dicts: "a", "c", "a:b" and
\* "b", "c", "d", "b:c", "b|c:d"
InfoKeys == {<<97>>, <<99>>, <<97, 58, 98>>}
InfoValues == {<<98>>, <<99>>, <<100>>, <<98, 58, 99>>, <<98, 124, 99, 58, 100>>}

\* the system_info dicts: their items in insertion order, at most two
SystemInfos ==
  {<< <<k, v>> >> : k \in InfoKeys, v \in InfoValues}
  \cup {<< <<ks[1], v1>>, <<ks[2], v2>> >> :
          ks \in {<< <<97>>, <<99>> >>, << <<99>>, <<97>> >>},
          v1 \in InfoValues, v2 \in InfoValues}

RECURSIVE JoinItems(_, _)
\* "|".join(f"{key}:{value}" ...) over the items from the i-th on
JoinItems(items, i) ==
  IF i > Len(items) THEN <<>>
  ELSE items[i][1] \o <<Colon>> \o items[i][2]
       \o (IF i < Len(items) THEN <<Bar>> ELSE <<>>) \o JoinItems(items, i + 1)

\* combined_data of generate_hardware_fingerprint: the items by sorted key
CombinedData(system_info) == JoinItems(SortedItems(system_info), 1)

\* LicenseManager.generate_hardware_fingerprint
generate_hardware_fingerprint(system_info) == HexDigest(Sha256(CombinedData(system_info)))

\* the fingerprints of two system_info dicts are computed
FingerprintPair(a, b) ==
  /\ cx.phase = "start"
  /\ cx' = [phase |-> "fingerprints", a |-> a, b |-> b,
            fa |-> generate_hardware_fingerprint(a),
            fb |-> generate_hardware_fingerprint(b)]
  /\ UNCHANGED <<now, db, req, hist, conf>>

FingerprintNext == \E a \in SystemInfos, b \in SystemInfos : FingerprintPair(a, b)

\* pairs of hardware fingerprints
FingerprintSpec == CodecInit /\ [][FingerprintNext]_vars

\* C19: two system_info dicts that differ in a key or a value have different
\* fingerprints, keys and values containing ":" or "|" included, and two dicts
\* with the same items have the same fingerprint whatever their insertion order.
C19_FingerprintsSeparate ==
  cx.phase = "fingerprints" =>
    IF SameItems(cx.a, cx.b) THEN cx.fa = cx.fb ELSE cx.fa # cx.fb

\* ------------------------------------------------------------- policy rules

\* the keys of the records the rules are evaluated on: a key that never expires,
\* a key whose embedded expiry is 1, and a key of the legacy "LIC-" format
PolicyKeys ==
  { generate_advanced_license_key(1, ClientTable[1].name, <<>>, <<>>, 1, <<>>, 1),
    generate_advanced_license_key(1, ClientTable[1].name, <<>>, <<1>>, 1, <<>>, 1),
    <<"L", "I", "C", "-", "A", "B", "C", "D">> }

\* str values of domains, one character per element
DomainAIo == <<"a", ".", "i", "o">>
DomainXAIo == <<"x", ".", "a", ".", "i", "o">>
DomainBIo == <<"b", ".", "i", "o">>
DomainUpper == <<"X", ".", "A", ".", "I", "O">>

\* the License rows the rules are evaluated on
PolicyRecords ==
  { [NoObject EXCEPT !.key = key, !.client = client, !.expires_at = expires_at,
                     !.is_active = is_active, !.max_users = 1,
                     !.usage_count = usage_count,
                     !.hardware_fingerprint = hardware_fingerprint,
                     !.ip_restrictions = ip_restrictions,
                     !.domain_restrictions = domain_restrictions] :
      key \in PolicyKeys, client \in {1, 2}, expires_at \in {<<>>, <<1>>},
      is_active \in BOOLEAN, usage_count \in {0, 1},
      hardware_fingerprint \in {<<>>, <<"fpA">>},
      ip_restrictions \in {<<>>, <<"10.0.0.1">>},
      domain_restrictions \in {<<>>, <<DomainAIo>>} }

PolicyIps == {<<>>, <<"10.0.0.1">>, <<"10.0.0.2">>}
PolicyDomains == {<<>>, <<DomainXAIo>>, <<DomainBIo>>, <<DomainUpper>>}
PolicyFingerprints == {<<>>, <<"fpA">>, <<"fpB">>}

\* a record is picked, at a time of the clock
PolicyInit ==
  /\ now \in Times
  /\ db = <<>>
  /\ req = [r \in Reqs |-> Idle]
  /\ hist = HistInit
  /\ conf = [workers |-> 0, rows |-> 0, devices |-> 0]
  /\ \E self \in PolicyRecords :
        cx = [phase |-> "record", self |-> self, verdict |-> Verdict(FALSE, "", ""),
              fails |-> <<>>, expires |-> 0,
              ip_address |-> <<>>, domain |-> <<>>, hardware_fingerprint |-> <<>>]

\* which of the rules, in the order the specification lists them, the record and
\* the context fail: inactive, record expired, codec error, token expired, client
\* mismatch, IP, domain, hardware, seats
RuleFailures(self, ip_address, domain, hardware_fingerprint, key_metadata, time) ==
  << ~self.is_active,
     RecordExpired(self, time),
     ~key_metadata.ok,
     key_metadata.ok /\ key_metadata.metadata[1].is_expired,
     key_metadata.ok /\ key_metadata.metadata[1].client_id # self.client,
     IpDenied(self, ip_address),
     DomainDenied(self, domain),
     HardwareMismatch(self, hardware_fingerprint),
     SeatsExhausted(self) >>

RuleMessages ==
  << "License is inactive", "License has expired", "Invalid license key",
     "License key has expired", "License key client mismatch",
     "IP address not authorized", "Domain not authorized",
     "Hardware fingerprint mismatch", "Maximum usage limit exceeded" >>

\* the expires entry of a decoded key, 0 when the key does not decode
EmbeddedExpires(key_metadata) ==
  IF key_metadata.ok THEN key_metadata.metadata[1].expires ELSE 0

\* what an evaluation leaves behind: the verdict, the rules that fail, the
\* expiry the key carries, and the context the caller gave
Evaluated(verdict, ip_address, domain, hardware_fingerprint, key_metadata) ==
  [cx EXCEPT
     !.phase = "verdict",
     !.verdict = verdict,
     !.fails = RuleFailures(cx.self, ip_address, domain, hardware_fingerprint,
                            key_metadata, now),
     !.expires = EmbeddedExpires(key_metadata),
     !.ip_address = ip_address, !.domain = domain,
     !.hardware_fingerprint = hardware_fingerprint]

\* license.is_valid(ip_address, domain, hardware_fingerprint) on the record
PolicyEvaluate(ip_address, domain, hardware_fingerprint) ==
  /\ cx.phase = "record"
  /\ cx' = Evaluated(is_valid(cx.self, ip_address, domain, hardware_fingerprint, now),
                     ip_address, domain, hardware_fingerprint,
                     validate_license_key(cx.self.key, now))
  /\ UNCHANGED <<now, db, req, hist, conf>>

PolicyNext ==
  \E ip \in PolicyIps, d \in PolicyDomains, fp \in PolicyFingerprints :
     PolicyEvaluate(ip, d, fp)

\* License.is_valid on every record and context of the sets above
PolicySpec == PolicyInit /\ [][PolicyNext]_vars

\* the first rule, in the listed order, that fails; 0 when none does
FirstFailure(fails) ==
  IF \E i \in 1..Len(fails) : fails[i]
    THEN CHOOSE i \in 1..Len(fails) : fails[i] /\ \A j \in 1..(i - 1) : ~fails[j]
    ELSE 0

\* C5: when several rules fail at once, is_valid reports the first failing rule
\* in the order inactive, record expiry, codec error, token expired, client
\* mismatch, IP, domain, hardware, seats; it answers valid when none fails.
C5_FirstFailingRule ==
  cx.phase = "verdict" =>
    IF FirstFailure(cx.fails) = 0
      THEN cx.verdict.valid
      ELSE ~cx.verdict.valid /\ cx.verdict.message = RuleMessages[FirstFailure(cx.fails)]

\* an inactive, expired record whose context also fails the IP, domain and
\* hardware rules and whose seats are used up is reported as inactive
C5_Witness ==
  /\ cx.phase = "verdict"
  /\ cx.fails[1] /\ cx.fails[2] /\ cx.fails[6] /\ cx.fails[7] /\ cx.fails[8] /\ cx.fails[9]
  /\ cx.verdict.message = "License is inactive"

\* the rules listed before rule n + 1 all pass
EarlierPass(n) == \A i \in 1..n : ~cx.fails[i]

\* C11: when the earlier rules pass, a validation that supplies an IP against a
\* record with a non-empty ip_restrictions list is refused with "IP address not
\* authorized" unless that very IP is in the list; with no IP supplied or an
\* empty list the rule never refuses.
C11_IpRule ==
  (cx.phase = "verdict" /\ EarlierPass(5)) =>
    IF /\ cx.ip_address # <<>>
       /\ cx.self.ip_restrictions # <<>>
       /\ \A i \in 1..Len(cx.self.ip_restrictions) :
             cx.self.ip_restrictions[i] # cx.ip_address[1]
      THEN ~cx.verdict.valid /\ cx.verdict.message = "IP address not authorized"
      ELSE cx.verdict.message # "IP address not authorized"

\* an IP outside a non-empty list was refused by the IP rule
C11_Witness ==
  /\ cx.phase = "verdict" /\ EarlierPass(5)
  /\ cx.ip_address = <<"10.0.0.2">> /\ cx.self.ip_restrictions = <<"10.0.0.1">>
  /\ cx.verdict.message = "IP address not authorized"

\* C12: when the earlier rules pass, a host supplied against a non-empty
\* domain_restrictions list is accepted by the host rule if and only if some
\* listed pattern is a suffix of the host, letters compared without regard to
\* case; otherwise the verdict is "Domain not authorized". No host or an empty
\* list skips the rule.
C12_HostRuleCaseless ==
  (cx.phase = "verdict" /\ EarlierPass(6)) =>
    IF /\ cx.domain # <<>>
       /\ cx.self.domain_restrictions # <<>>
       /\ ~\E i \in 1..Len(cx.self.domain_restrictions) :
             EndsWith(Lower(cx.domain[1]), Lower(cx.self.domain_restrictions[i]))
      THEN ~cx.verdict.valid /\ cx.verdict.message = "Domain not authorized"
      ELSE cx.verdict.message # "Domain not authorized"

\* C13: "Hardware fingerprint mismatch" is answered only when the record has a
\* fingerprint, the caller supplies one and the two differ; when the record has
\* none, or the caller supplies none, the rule is skipped and the seat rule
\* decides.
C13_HardwareRule ==
  cx.phase = "verdict" =>
    /\ cx.verdict.message = "Hardware fingerprint mismatch"
         => /\ cx.self.hardware_fingerprint # <<>>
            /\ cx.hardware_fingerprint # <<>>
            /\ cx.self.hardware_fingerprint # cx.hardware_fingerprint
    /\ EarlierPass(7) =>
         IF /\ cx.self.hardware_fingerprint # <<>>
            /\ cx.hardware_fingerprint # <<>>
            /\ cx.self.hardware_fingerprint # cx.hardware_fingerprint
           THEN ~cx.verdict.valid /\ cx.verdict.message = "Hardware fingerprint mismatch"
           ELSE IF cx.self.usage_count >= cx.self.max_users
                  THEN cx.verdict.message = "Maximum usage limit exceeded"
                  ELSE cx.verdict.valid

\* a record bound to a fingerprint was validated without one and found valid
C13_Witness ==
  /\ cx.phase = "verdict" /\ EarlierPass(7)
  /\ cx.self.hardware_fingerprint # <<>> /\ cx.hardware_fingerprint = <<>>
  /\ cx.verdict.valid

C20_RecordExpiredFrom ==
  (cx.phase = "verdict" /\ cx.self.is_active) =>
    (cx.verdict.message = "License has expired"
       <=> (cx.self.expires_at # <<>> /\ cx.self.expires_at[1] <= now))

\* C20, amended: such a record is refused with "License has expired" at every
\* time now with expires_at < now; at now = expires_at it still passes this
\* rule; a record without expires_at never is refused by it.
C20_RecordExpiredAfter ==
  (cx.phase = "verdict" /\ cx.self.is_active) =>
    (cx.verdict.message = "License has expired"
       <=> (cx.self.expires_at # <<>> /\ cx.self.expires_at[1] < now))

\* a record was validated in the second after its expires_at and refused
C20_Witness ==
  /\ cx.phase = "verdict" /\ cx.self.is_active
  /\ cx.self.expires_at # <<>> /\ now = cx.self.expires_at[1] + 1
  /\ cx.verdict.message = "License has expired"

\* ------------------------------------------------------------- seat counting

\* the license was created and no administrative request has loaded it since:
\* it is active and carries no IP or domain restriction
Fresh(l) == l \in 1..Len(db) /\ ~hist.touched[l]

\* the answer of the last step is a refusal of a track-usage request on l, made
\* while the record and its token had not expired
RefusedUnexpired(l) ==
  /\ hist.last.op = "usage" /\ hist.last.lic = l /\ ~hist.last.success
  /\ ~RecordExpired(db[l], now)

\* the successful consumptions of a fresh license observed 0, 1, ..., one after
\* the other, as many as usage_count says, and never more than max_users
CountedSeats(l) ==
  /\ ~hist.dup
  /\ hist.seen[l] = 0..(db[l].usage_count - 1)
  /\ db[l].usage_count <= db[l].max_users

\* C1: on a fresh license with max_users = k, sequential track-usage calls
\* succeed exactly k times: every call made before the license expires succeeds
\* until usage_count = k, and the call after that is refused with "Maximum usage
\* limit exceeded", usage_count staying k.
C1_SeatExhaustion ==
  \A l \in 1..Len(db) :
    Fresh(l) =>
      /\ CountedSeats(l)
      /\ RefusedUnexpired(l) =>
           /\ hist.last.message = "Maximum usage limit exceeded"
           /\ db[l].usage_count = db[l].max_users

\* C1, amended: the same, for the calls whose hardware fingerprint, when they
\* supply one, is the one an earlier consumption bound the license to.
C1_SeatExhaustionSameDevice ==
  \A l \in 1..Len(db) :
    Fresh(l) =>
      /\ CountedSeats(l)
      /\ (RefusedUnexpired(l) /\ ~hist.last.clash) =>
           /\ hist.last.message = "Maximum usage limit exceeded"
           /\ db[l].usage_count = db[l].max_users

\* a fresh license with 2 seats has been consumed twice and the third call was
\* refused for its seats
C1_Witness ==
  \E l \in 1..Len(db) :
    /\ Fresh(l) /\ db[l].max_users = 2 /\ hist.seen[l] = {0, 1}
    /\ RefusedUnexpired(l) /\ ~hist.last.clash
    /\ hist.last.message = "Maximum usage limit exceeded"

\* C2: track-usage is linearizable per license: no two successful consumptions
\* of a license that no administrative request has touched observe the same
\* usage_count before their increment.
C2_Linearizable == ~hist.dup

\* C3: a track-usage request answered "Usage recorded successfully" has raised
\* the persisted usage_count by exactly 1 and set the persisted last_used to the
\* time of the call.
C3_ConsumeAddsOne ==
  (hist.last.op = "usage" /\ hist.last.success) =>
    (hist.last.delta = 1 /\ hist.last.stamped)

\* C4: a step in which a track-usage request is refused, for any reason
\* ("License not found" included), leaves every row of the License table as it
\* was.
C4_RefusalWritesNothing ==
  [][(hist'.last.op = "usage" /\ ~hist'.last.success) => db' = db]_vars

\* a request on an existing license has been refused
C4_Witness ==
  /\ hist.last.op = "usage" /\ ~hist.last.success /\ hist.last.lic # 0
  /\ hist.last.message = "License is inactive"

\* C9: a bulk creation of n licenses answers with n licenses and the keys in the
\* table are pairwise distinct, whatever the clock does between two of them.
C9_BulkKeysDistinct ==
  hist.last.op = "bulk" =>
    /\ hist.last.success
    /\ \A i, j \in 1..Len(db) : i # j => db[i].key # db[j].key

\* ------------------------------------------------------------- validation

\* the last step answered a validation that named a client other than the one
\* the presented key was issued to and is stored under
ForeignClaim ==
  /\ hist.last.op = "validate"
  /\ hist.last.owner # 0
  /\ hist.last.claimed # hist.last.owner

\* C14: validating an existing, authentic key while naming a client_id other
\* than the one the key and its record were issued for is answered "License key
\* client mismatch", not "License not found" and not valid.
C14_ForeignClaimMismatch ==
  ForeignClaim => (~hist.last.success /\ hist.last.message = "License key client mismatch")

\* C14, amended: such a validation is answered "License not found", invalid,
\* with remaining_uses 0: the lookup is by key and client_id together, so the
\* record is not found and its rules are never evaluated.
C14_ForeignClaimNotFound ==
  ForeignClaim =>
    /\ ~hist.last.success
    /\ hist.last.message = "License not found"
    /\ hist.last.lic = 0
    /\ hist.last.remaining = 0

\* the key of a stored license of client 1 was validated in the name of client 2
C14_Witness ==
  /\ ForeignClaim
  /\ hist.last.owner = 1 /\ hist.last.claimed = 2
  /\ hist.last.message = "License not found"

\* the last step answered a validation of license l
Validated(l) == hist.last.op = "validate" /\ hist.last.lic = l

\* C17: in every reachable state get_remaining_uses() of every record is
\* max(0, max_users - usage_count), never negative; a validation answered valid
\* reports remaining_uses >= 1; and a license with max_users = 1 that is
\* validated before any use, edit or expiry is valid with remaining_uses = 1.
C17_RemainingSeats ==
  /\ \A l \in 1..Len(db) :
        /\ get_remaining_uses(db[l]) >= 0
        /\ get_remaining_uses(db[l]) + db[l].usage_count >= db[l].max_users
        /\ db[l].usage_count <= db[l].max_users
             => get_remaining_uses(db[l]) + db[l].usage_count = db[l].max_users
        /\ db[l].usage_count >= db[l].max_users => get_remaining_uses(db[l]) = 0
  /\ (hist.last.op = "validate" /\ hist.last.success) => hist.last.remaining >= 1
  /\ \A l \in 1..Len(db) :
        ( /\ Validated(l) /\ Fresh(l)
          /\ db[l].max_users = 1 /\ db[l].usage_count = 0
          /\ db[l].expires_at[1] >= now )
        => (hist.last.success /\ hist.last.remaining = 1)

\* a license with one seat was validated before any use and found valid with
\* one remaining use
C17_Witness ==
  \E l \in 1..Len(db) :
    /\ Validated(l) /\ Fresh(l)
    /\ db[l].max_users = 1 /\ db[l].usage_count = 0
    /\ hist.last.success /\ hist.last.remaining = 1

\* ------------------------------------------------------------- regeneration

\* C16: a regeneration replaces the key of the record by a key freshly generated
\* from the record's current client, email, expires_at, max_users and features,
\* and leaves every other field of the record, and every other record, as it
\* was; the new key decodes to the record's client id.
C16_RegenerateReplacesKey ==
  [][hist'.last.op = "regenerate" =>
       /\ hist'.last.success
       /\ db'[hist'.last.lic].key = NewKey(db[hist'.last.lic], now)
       /\ db' = [db EXCEPT ![hist'.last.lic].key = db'[hist'.last.lic].key]
       /\ validate_license_key(db'[hist'.last.lic].key, now).ok
       /\ validate_license_key(db'[hist'.last.lic].key, now).metadata[1].client_id
            = db[hist'.last.lic].client]_vars

\* ------------------------------------------------------------- edited records

\* handler r ends a track-usage request in this step
UsageEnds(r) == req[r].pc = "loaded" /\ req[r].op = "usage" /\ req'[r].pc = "idle"

\* the rules is_valid tests before the seat rule all pass for the object loaded
BeforeSeatsPass(self, ip_address, hardware_fingerprint, key_metadata) ==
  \A i \in 1..8 :
    ~RuleFailures(self, ip_address, <<>>, hardware_fingerprint, key_metadata, now)[i]

\* the seats a track-usage request is refused for are the ones the key carries
SeatsOfKey(self, ip_address, hardware_fingerprint, key_metadata, message) ==
  (message = "Maximum usage limit exceeded")
    <=> /\ BeforeSeatsPass(self, ip_address, hardware_fingerprint, key_metadata)
        /\ self.usage_count >= key_metadata.metadata[1].max_users

\* C21: after any sequence of operations, edits of the record's max_users
\* included, a track-usage request is refused with "Maximum usage limit
\* exceeded" if and only if the earlier rules pass and usage_count is at least
\* the max_users embedded in the key.
C21_SeatRuleUsesEmbeddedSeats ==
  [][\A r \in Reqs :
       UsageEnds(r) =>
         SeatsOfKey(req[r].obj, req[r].ip, req[r].fp,
                    validate_license_key(req[r].obj.key, now), hist'.last.message)]_vars

\* C25: every stored record that has an expires_at carries in its key the same
\* expires, after creation, regeneration and updates of the record.
C25_RecordExpiryIsEmbedded ==
  \A l \in 1..Len(db) :
    db[l].expires_at # <<>> =>
      EmbeddedExpires(validate_license_key(db[l].key, now)) = db[l].expires_at[1]

\* the last step answered a consumption or a validation of the key of row l
Answered(l) == hist.last.op \in {"usage", "validate"} /\ hist.last.lic = l

\* the expires embedded in the key of row l is not 0 and lies before now
KeyLapsed(l) ==
  LET expires == EmbeddedExpires(validate_license_key(db[l].key, now))
  IN  expires # 0 /\ now > expires

\* C27: once the expires embedded in a key has passed, every consumption and
\* every validation of that key is refused, whatever activate, deactivate,
\* reset_usage, restriction or update requests were made on its record.
C27_ExpiryTerminal ==
  \A l \in 1..Len(db) : (Answered(l) /\ KeyLapsed(l)) => ~hist.last.success

\* a consumption of a lapsed key is refused for the key's expiry after the
\* record's own expires_at was removed
C27_Witness ==
  \E l \in 1..Len(db) :
    /\ hist.last.op = "usage" /\ hist.last.lic = l /\ KeyLapsed(l)
    /\ db[l].is_active /\ db[l].expires_at = <<>>
    /\ hist.last.message = "License key has expired"

\* ------------------------------------------------------------- key framing

\* version and timestamp, client hash, checksum and signature: the bytes of a
\* payload around its compressed metadata
FixedLen == 33

\* what Base32 decoding makes of the key cut after cx.pos characters
CutDecoded == B32Decode(PaddedKey(CleanKey(SubSeq(cx.key, 1, cx.pos))))

\* a cut key that still decodes has been validated
CutChecked == cx.phase = "checked" /\ cx.kind = "cut" /\ CutDecoded.ok

\* the validation stopped at the length check
LengthRefused ==
  /\ ~cx.out.ok
  /\ cx.out.error = "Invalid license key length"
  /\ cx.out.steps = <<"prefix", "base32", "length">>

C23_CaseAndHyphens ==
  (cx.phase = "checked" /\ cx.kind \in RetypeKinds) =>
    /\ cx.out.ok
    /\ cx.out.metadata = validate_license_key(cx.key, now).metadata

\* ------------------------------------------------------------- concurrent requests

\* C28: under any interleaving of concurrent track-usage requests on a license
\* that starts with usage_count = 0 and whose max_users is never edited,
\* usage_count <= max_users in every state, and the successful consumptions are
\* never more than max_users.
C28_SeatCap ==
  \A l \in 1..Len(db) :
    Fresh(l) =>
      /\ db[l].usage_count <= db[l].max_users
      /\ hist.wins[l] <= db[l].max_users

\* the last step of the behaviour ended request op on row l
Ended(op, l) == hist'.last.op = op /\ hist'.last.lic = l

\* C24: the persisted usage_count of a record changes only by +1, through a
\* successful consumption, or to 0, through reset_usage; no other request
\* lowers it, whatever requests run concurrently on the record.
C24_UsageOnlyRaisedOrReset ==
  [][\A l \in 1..Len(db) :
       \/ db'[l].usage_count = db[l].usage_count
       \/ /\ db'[l].usage_count = db[l].usage_count + 1
          /\ Ended("usage", l) /\ hist'.last.success
       \/ /\ db'[l].usage_count = 0
          /\ Ended("reset_usage", l)]_vars

\* C29: once a record is persisted inactive, it stays so until an activate
\* request writes it, whatever requests that loaded the record earlier do.
C29_DeactivationSticks ==
  [][\A l \in 1..Len(db) :
       (~db[l].is_active /\ db'[l].is_active) => Ended("activate", l)]_vars

\* the rules is_valid tests before the hardware rule all pass on the stored row
BeforeHardwarePass(self, ip_address, hardware_fingerprint, key_metadata) ==
  \A i \in 1..7 :
    ~RuleFailures(self, ip_address, <<>>, hardware_fingerprint, key_metadata, now)[i]

\* what the end of a track-usage request that supplied fingerprint f does to a
\* row whose stored fingerprint is bound, and what it answers
Binding(self, after, ip_address, f, answer) ==
  /\ (self.hardware_fingerprint = <<>> /\ f # <<>> /\ answer.success)
       => after.hardware_fingerprint = f
  /\ self.hardware_fingerprint # <<>>
       => after.hardware_fingerprint = self.hardware_fingerprint
  /\ ( /\ self.hardware_fingerprint # <<>> /\ f # <<>> /\ f # self.hardware_fingerprint
       /\ BeforeHardwarePass(self, ip_address, f, validate_license_key(self.key, now)) )
       => answer.message = "Hardware fingerprint mismatch"

\* C30: the first successful consumption that supplies a fingerprint f to a
\* record without one stores f; afterwards no consumption changes the stored
\* fingerprint, and a consumption supplying another fingerprint is refused with
\* "Hardware fingerprint mismatch" when the earlier rules pass.
C30_HardwareBinding ==
  [][\A r \in Reqs :
       UsageEnds(r) =>
         Binding(db[req[r].lic], db'[req[r].lic], req[r].ip, req[r].fp, hist'.last)]_vars

\* ------------------------------------------------------------- issue and expiry

\* C26: every key that validate_license_key decodes carries issued <= now (no
\* clock skew is configured) and, when its expires is not 0, issued < expires;
\* a key generated with an expires_at that is not after the time of generation
\* does not decode.
C26_IssuedBeforeExpires ==
  (cx.phase = "minted" /\ cx.decoded.ok) =>
    /\ cx.decoded.metadata[1].issued <= cx.at
    /\ cx.decoded.metadata[1].expires # 0
         => cx.decoded.metadata[1].issued < cx.decoded.metadata[1].expires

====
